---- MODULE Spec2Model ----
(***************************************************************************)
(* Verification model of the golang-interfaces-explained snippets.         *)
(*                                                                         *)
(*   Spec       07/main.go (and its twin 05/main.go): a map[string]        *)
(*              interface{} record, map assignment, the comma-ok type      *)
(*              assertion and the narrow / add 1 / write-back sequence.    *)
(*              The literals of main ("age", 21, ...) are inputs here.     *)
(*   SpecLog    01/main.go: WriteLog over the Stringer types Book, Count.  *)
(*   SpecSales  03/main.go: calculateSalesRate over the two ShopDB counts. *)
(*                                                                         *)
(* Each specification moves only its own variables.                        *)
(***************************************************************************)
EXTENDS Integers, Sequences, FiniteSets, TLC

VARIABLES
    person,     \* 07/main.go:6   the map[string]interface{}
    age,        \* 07/main.go:12  first result of the type assertion
    ok,         \* 07/main.go:12  second result of the type assertion
    pc,         \* position of main: "run", "fatal" (line 14), "done" (line 20)
    printed,    \* what line 20 handed to the log
    call,       \* the statement executed last, with its operands
    lastSet,    \* history: per key, the value of the latest map assignment
    demo,       \* history: how much of main's own statement list has run, -1 once left
    incs,       \* number of write-backs so far (bounded by MaxIncs)
    log,        \* 01/main.go: the lines given to log.Print
    args,       \* history: the Stringers passed to WriteLog, in order
    spc,        \* 03/main.go: position inside main / calculateSalesRate
    sales,      \* 03/main.go:46  result of CountSales (count, err)
    customers,  \* 03/main.go:51  result of CountCustomers (count, err)
    queries,    \* history: the ShopDB methods called, in order
    sr,         \* 03/main.go:36  string returned by calculateSalesRate
    err         \* 03/main.go:36  error returned by calculateSalesRate

recVars == <<person, age, ok, pc, printed, call, lastSet, demo, incs>>
logVars == <<log, args>>
salesVars == <<spc, sales, customers, queries, sr, err>>
vars == <<recVars, logVars, salesVars>>

----------------------------------------------------------------------------
(* Bounds of the model *)

MaxIncs == 2

MaxLog == 3

MaxCount == 8

----------------------------------------------------------------------------
(* Go's int: a 64-bit two's complement word, kept as four 16-bit limbs     *)
(* (most significant first) because 2^63 is outside TLC's integers.        *)

LimbBase == 2^16

Word(n) == <<0, 0, 0, n>>

ZeroWord == Word(0)

MaxIntWord == <<LimbBase \div 2 - 1, LimbBase - 1, LimbBase - 1, LimbBase - 1>>

MinIntWord == <<LimbBase \div 2, 0, 0, 0>>

AddOneNoCarry(w) == <<w[1], w[2], w[3], (w[4] + 1) % LimbBase>>

\* age + 1 on a Go int: ripple-carry addition, the carry out of the top limb dropped
AddOne(w) ==
    LET s4 == w[4] + 1
        s3 == w[3] + s4 \div LimbBase
        s2 == w[2] + s3 \div LimbBase
        s1 == w[1] + s2 \div LimbBase
    IN  <<s1 % LimbBase, s2 % LimbBase, s3 % LimbBase, s4 % LimbBase>>

----------------------------------------------------------------------------
(* interface{} values: a dynamic type and a payload *)

Types == {"string", "int", "float64"}

IntV(w) == [type |-> "int", w |-> w, s |-> ""]

StrV(s) == [type |-> "string", w |-> ZeroWord, s |-> s]

\* a float64 is only stored and printed by the program: kept as its literal
FloatV(s) == [type |-> "float64", w |-> ZeroWord, s |-> s]

\* the nil interface: what indexing a map yields for a key it does not hold
NilV == [type |-> "nil", w |-> ZeroWord, s |-> ""]

Zero(T) ==
    CASE T = "int" -> IntV(ZeroWord)
      [] T = "string" -> StrV("")
      [] T = "float64" -> FloatV("0")

Keys == {"name", "age", "height"}

SetValues ==
    {StrV("Alice"), StrV("21"), IntV(Word(21)), IntV(MaxIntWord), FloatV("167.64")}

EmptyMap == [k \in {} |-> NilV]

MapIndexZeroInt(m, k) == IF k \in DOMAIN m THEN m[k] ELSE IntV(ZeroWord)

\* person[k] as an expression
MapIndex(m, k) == IF k \in DOMAIN m THEN m[k] ELSE NilV

MapAssignReplaceAll(m, k, v) == [x \in {k} |-> v]

MapAssignFirstWins(m, k, v) ==
    [x \in DOMAIN m \cup {k} |-> IF x \in DOMAIN m THEN m[x] ELSE v]

\* person[k] = v
MapAssign(m, k, v) == [x \in DOMAIN m \cup {k} |-> IF x = k THEN v ELSE m[x]]

TypeAssertCoerce(i, T) ==
    IF i.type = T THEN <<i, TRUE>>
    ELSE IF i.type = "nil" THEN <<Zero(T), FALSE>>
    ELSE <<Zero(T), TRUE>>

TypeAssertNilOk(i, T) ==
    IF i.type = T THEN <<i, TRUE>>
    ELSE IF i.type = "nil" THEN <<Zero(T), TRUE>>
    ELSE <<Zero(T), FALSE>>

TypeAssertKeepValue(i, T) == IF i.type = T THEN <<i, TRUE>> ELSE <<i, FALSE>>

\* i.(T) in its comma-ok form: never panics; the zero value of T on failure
TypeAssert(i, T) == IF i.type = T THEN <<i, TRUE>> ELSE <<Zero(T), FALSE>>

\* person[k].(T)
GetTyped(m, k, T) == TypeAssert(MapIndex(m, k), T)

\* fmt prints a map with its keys sorted
KeyOrder == <<"age", "height", "name">>

FormatMap(m) ==
    LET present == SelectSeq(KeyOrder, LAMBDA k : k \in DOMAIN m)
    IN  [i \in 1..Len(present) |-> <<present[i], m[present[i]]>>]

----------------------------------------------------------------------------
(* main of 07/main.go, statement by statement *)

Stmt(op, k, v, T) == [op |-> op, key |-> k, val |-> v, type |-> T]

NoCall == Stmt("none", "", NilV, "")

\* the statements of main in program order, with main's own literals
DemoScript ==
    << Stmt("set", "name", StrV("Alice"), ""),
       Stmt("set", "age", IntV(Word(21)), ""),
       Stmt("set", "height", FloatV("167.64"), ""),
       Stmt("incrementIntField", "age", NilV, "int"),
       Stmt("print", "", NilV, "") >>

Follow(d, c) ==
    IF d >= 0 /\ d < Len(DemoScript) /\ DemoScript[d + 1] = c THEN d + 1 ELSE -1

RecInit ==
    /\ person = EmptyMap
    /\ age = NilV
    /\ ok = FALSE
    /\ pc = "run"
    /\ printed = <<>>
    /\ call = NoCall
    /\ lastSet = EmptyMap
    /\ demo = 0
    /\ incs = 0

\* lines 8-10: person[k] = v
Set(k, v) ==
    /\ pc = "run"
    /\ person' = MapAssign(person, k, v)
    /\ lastSet' = [x \in DOMAIN lastSet \cup {k} |-> IF x = k THEN v ELSE lastSet[x]]
    /\ call' = Stmt("set", k, v, "")
    /\ demo' = Follow(demo, call')
    /\ UNCHANGED <<age, ok, pc, printed, incs, logVars, salesVars>>

\* line 12 on its own, for any asserted type: age, ok := person[k].(T)
GetTypedCall(k, T) ==
    /\ pc = "run"
    /\ age' = GetTyped(person, k, T)[1]
    /\ ok' = GetTyped(person, k, T)[2]
    /\ call' = Stmt("getTyped", k, NilV, T)
    /\ demo' = Follow(demo, call')
    /\ UNCHANGED <<person, pc, printed, lastSet, incs, logVars, salesVars>>

\* lines 12-18: assert to int; log.Fatal when !ok; otherwise person[k] = age + 1
IncrementIntField(k) ==
    /\ pc = "run"
    /\ incs < MaxIncs
    /\ age' = GetTyped(person, k, "int")[1]
    /\ ok' = GetTyped(person, k, "int")[2]
    /\ call' = Stmt("incrementIntField", k, NilV, "int")
    /\ demo' = Follow(demo, call')
    /\ IF ok'
       THEN /\ person' = MapAssign(person, k, IntV(AddOne(age'.w)))
            /\ lastSet' = [x \in DOMAIN lastSet \cup {k} |->
                              IF x = k THEN IntV(AddOne(age'.w)) ELSE lastSet[x]]
            /\ incs' = incs + 1
            /\ pc' = "run"
       ELSE /\ pc' = "fatal"
            /\ UNCHANGED <<person, lastSet, incs>>
    /\ UNCHANGED <<printed, logVars, salesVars>>

\* line 20: log.Printf("%+v", person), then main returns
PrintRecord ==
    /\ pc = "run"
    /\ printed' = FormatMap(person)
    /\ pc' = "done"
    /\ call' = Stmt("print", "", NilV, "")
    /\ demo' = Follow(demo, call')
    /\ UNCHANGED <<person, age, ok, lastSet, incs, logVars, salesVars>>

----------------------------------------------------------------------------
(* 01/main.go: Stringer, Book, Count, WriteLog *)

DigitChars == <<"0", "1", "2", "3", "4", "5", "6", "7", "8", "9">>

RECURSIVE FormatUint(_)
\* the decimal digits of a natural number, most significant first
FormatUint(n) ==
    IF n < 10 THEN DigitChars[n + 1]
    ELSE FormatUint(n \div 10) \o DigitChars[(n % 10) + 1]

ItoaNoSign(n) == FormatUint(IF n < 0 THEN -n ELSE n)

\* strconv.Itoa
Itoa(n) == IF n < 0 THEN "-" \o FormatUint(-n) ELSE FormatUint(n)

RECURSIVE Sprintf(_, _)
\* fmt.Sprintf over a format cut into its literal pieces and its %s verbs
Sprintf(format, a) ==
    IF format = <<>> THEN ""
    ELSE IF Head(format) = "%s"
         THEN IF a = <<>>
              THEN "%!s(MISSING)" \o Sprintf(Tail(format), a)
              ELSE Head(a) \o Sprintf(Tail(format), Tail(a))
         ELSE Head(format) \o Sprintf(Tail(format), a)

Book(title, author) == [type |-> "Book", Title |-> title, Author |-> author, n |-> 0]

Count(n) == [type |-> "Count", Title |-> "", Author |-> "", n |-> n]

\* func (b Book) String() string
BookString(b) == Sprintf(<<"Book: ", "%s", " - ", "%s">>, <<b.Title, b.Author>>)

\* func (c Count) String() string
CountString(c) == Itoa(c.n)

\* s.String() on an interface value: the method of the dynamic type
String(s) ==
    CASE s.type = "Book" -> BookString(s)
      [] s.type = "Count" -> CountString(s)

Titles == {"Alice in Wonderland", ""}

Authors == {"Lewis Carrol", "Anon"}

Counts == {-12, 0, 3, 10, 107}

Stringers == {Book(t, a) : t \in Titles, a \in Authors} \cup {Count(n) : n \in Counts}

\* func WriteLog(s fmt.Stringer): log.Print(s.String())
WriteLog(s) ==
    /\ Len(log) < MaxLog
    /\ log' = Append(log, String(s))
    /\ args' = Append(args, s)
    /\ UNCHANGED <<recVars, salesVars>>

\* the two calls main makes, in order
MainArgs == <<Book("Alice in Wonderland", "Lewis Carrol"), Count(3)>>

----------------------------------------------------------------------------
(* 03/main.go: ShopDB and calculateSalesRate *)

DBErrors == {"sql: database is closed", "driver: bad connection"}

\* what a count query can answer: a count and a nil error, or 0 and an error
DBResults == {<<n, "nil">> : n \in 0..MaxCount} \cup {<<0, e>> : e \in DBErrors}

\* fmt.Sprintf("%.2f", float64(s) / float64(c)) for counts s, c >= 0.
\* The quotient is rounded to hundredths, an exact half to the even neighbour;
\* for c < 16 an exact half arises only for c = 8, where s / c is exact in
\* float64, so the float64 quotient rounds the way the rational does.
FormatRate(s, c) ==
    IF c = 0 THEN (IF s = 0 THEN "NaN" ELSE "+Inf")
    ELSE LET q == (100 * s) \div c
             r == (100 * s) % c
             h == IF 2 * r > c \/ (2 * r = c /\ q % 2 = 1) THEN q + 1 ELSE q
         IN  FormatUint(h \div 100) \o "." \o DigitChars[((h \div 10) % 10) + 1]
                 \o DigitChars[(h % 10) + 1]

CountSalesIgnoreErr(r) ==
    /\ spc = "main"
    /\ sales' = r
    /\ queries' = Append(queries, "CountSales")
    /\ spc' = "customers"
    /\ UNCHANGED <<sr, err, customers, recVars, logVars>>

\* lines 36, 44-49: main calls calculateSalesRate, which queries CountSales first
CountSales(r) ==
    /\ spc = "main"
    /\ sales' = r
    /\ queries' = Append(queries, "CountSales")
    /\ IF r[2] # "nil"
       THEN sr' = "" /\ err' = r[2] /\ spc' = "returned"
       ELSE spc' = "customers" /\ UNCHANGED <<sr, err>>
    /\ UNCHANGED <<customers, recVars, logVars>>

\* lines 51-57: CountCustomers, then the rate
CountCustomers(r) ==
    /\ spc = "customers"
    /\ customers' = r
    /\ queries' = Append(queries, "CountCustomers")
    /\ IF r[2] # "nil"
       THEN sr' = "" /\ err' = r[2]
       ELSE sr' = FormatRate(sales[1], r[1]) /\ err' = "nil"
    /\ spc' = "returned"
    /\ UNCHANGED <<sales, recVars, logVars>>

\* lines 37-39: log.Fatal(err)
MainFatal ==
    /\ spc = "returned"
    /\ err # "nil"
    /\ spc' = "fatal"
    /\ UNCHANGED <<sales, customers, queries, sr, err, recVars, logVars>>

\* line 40: fmt.Printf(sr)
MainPrintf ==
    /\ spc = "returned"
    /\ err = "nil"
    /\ spc' = "printed"
    /\ UNCHANGED <<sales, customers, queries, sr, err, recVars, logVars>>

----------------------------------------------------------------------------
(* Specifications *)

LogIdle == log = <<>> /\ args = <<>>

SalesIdle ==
    /\ spc = "main"
    /\ sales = <<0, "nil">>
    /\ customers = <<0, "nil">>
    /\ queries = <<>>
    /\ sr = ""
    /\ err = "nil"

Init == RecInit /\ LogIdle /\ SalesIdle

Next ==
    \/ \E k \in Keys, v \in SetValues : Set(k, v)
    \/ \E k \in Keys, T \in Types : GetTypedCall(k, T)
    \/ \E k \in Keys : IncrementIntField(k)
    \/ PrintRecord

Spec == Init /\ [][Next]_vars

LogNext == \E s \in Stringers : WriteLog(s)

SpecLog == Init /\ [][LogNext]_vars

SalesNext ==
    \/ \E r \in DBResults : CountSales(r)
    \/ \E r \in DBResults : CountCustomers(r)
    \/ MainFatal
    \/ MainPrintf

SpecSales == Init /\ [][SalesNext]_vars

----------------------------------------------------------------------------
(* Properties *)

\* w2 is the integer after w1, read as 64-bit two's complement numbers:
\* some limb goes up by one, the limbs below it go from all ones to zero,
\* the limbs above it stay; -1 to 0 included, the largest int has none.
IntSuccessor(w1, w2) ==
    /\ w1 # <<LimbBase \div 2 - 1, LimbBase - 1, LimbBase - 1, LimbBase - 1>>
    /\ \/ \E i \in 1..4 :
            /\ w1[i] < LimbBase - 1
            /\ w2[i] = w1[i] + 1
            /\ \A j \in 1..(i - 1) : w2[j] = w1[j]
            /\ \A j \in (i + 1)..4 : w1[j] = LimbBase - 1 /\ w2[j] = 0
       \/ /\ \A j \in 1..4 : w1[j] = LimbBase - 1
          /\ \A j \in 1..4 : w2[j] = 0

\* the step just taken was incrementIntField on a key holding an int
IncrementOfInt ==
    /\ call'.op = "incrementIntField"
    /\ call'.key \in DOMAIN person
    /\ person[call'.key].type = "int"

\* every key but the incremented one keeps its value; no key is added or removed
IncrementFrame ==
    /\ DOMAIN person' = DOMAIN person
    /\ \A x \in DOMAIN person \ {call'.key} : person'[x] = person[x]

\* C1 as stated: whenever key k holds an integer n, incrementIntField(k)
\* succeeds and leaves k holding the integer n+1, every other key keeps its
\* value and no key is added or removed.
C1_Original ==
    [][IncrementOfInt =>
          /\ pc' = "run"
          /\ ok'
          /\ person'[call'.key].type = "int"
          /\ IntSuccessor(person[call'.key].w, person'[call'.key].w)
          /\ IncrementFrame]_vars

\* C1 amended: whenever key k holds an integer n, incrementIntField(k)
\* succeeds and leaves k holding n+1 as Go's int computes it (the integer
\* n+1, and the smallest int when n is the largest int); every other key
\* keeps its value and no key is added or removed.
C1_IncrementWraps ==
    [][IncrementOfInt =>
          /\ pc' = "run"
          /\ ok'
          /\ person'[call'.key].type = "int"
          /\ \/ IntSuccessor(person[call'.key].w, person'[call'.key].w)
             \/ /\ person[call'.key].w
                     = <<LimbBase \div 2 - 1, LimbBase - 1, LimbBase - 1, LimbBase - 1>>
                /\ person'[call'.key].w = <<LimbBase \div 2, 0, 0, 0>>
          /\ IncrementFrame]_vars

C1_Witness ==
    /\ call.op = "incrementIntField"
    /\ ok
    /\ pc = "run"
    /\ DOMAIN person = Keys
    /\ person[call.key] = [type |-> "int", w |-> <<0, 0, 0, 22>>, s |-> ""]

\* C2: whenever key k is present with a value that is not an int,
\* incrementIntField(k) fails (the program's one failure exit, with ok false)
\* and the record is exactly what it was: no map assignment is executed.
C2_MismatchFailsUnchanged ==
    [][(/\ call'.op = "incrementIntField"
        /\ call'.key \in DOMAIN person
        /\ person[call'.key].type # "int")
          => /\ pc' = "fatal"
             /\ ~ok'
             /\ person' = person
             /\ lastSet' = lastSet
             /\ incs' = incs]_vars

C2_Witness ==
    /\ call.op = "incrementIntField"
    /\ pc = "fatal"
    /\ call.key \in DOMAIN person
    /\ person[call.key] = [type |-> "string", w |-> <<0, 0, 0, 0>>, s |-> "21"]

\* C3: whenever the record has no entry for k, incrementIntField(k) fails and
\* the record is exactly what it was; k is not created.
C3_MissingFailsUnchanged ==
    [][(call'.op = "incrementIntField" /\ call'.key \notin DOMAIN person)
          => /\ pc' = "fatal"
             /\ ~ok'
             /\ person' = person
             /\ call'.key \notin DOMAIN person'
             /\ lastSet' = lastSet]_vars

C3_Witness ==
    /\ call.op = "incrementIntField"
    /\ pc = "fatal"
    /\ call.key \notin DOMAIN person
    /\ person # <<>>

\* C4: after any sequence of map assignments, for every key k that was set,
\* the typed read of k at the type of the value v set last under k returns
\* (v, true).
C4_GetTypedAfterSet ==
    /\ \A k \in DOMAIN lastSet :
          GetTyped(person, k, lastSet[k].type) = <<lastSet[k], TRUE>>
    /\ (/\ call.op = "getTyped"
        /\ call.key \in DOMAIN lastSet
        /\ call.type = lastSet[call.key].type)
          => (ok /\ age = lastSet[call.key])

C4_Witness ==
    /\ call.op = "getTyped"
    /\ call.type = "float64"
    /\ ok
    /\ age = [type |-> "float64", w |-> <<0, 0, 0, 0>>, s |-> "167.64"]
    /\ incs > 0

\* C5: for every key k holding a value of type T1 and every other type T2,
\* the typed read of k at T2 returns ok = false, the program goes on (no
\* panic, no exit), and the value returned is not the stored one.
C5_GetTypedWrongType ==
    /\ \A k \in DOMAIN person : \A T \in Types \ {person[k].type} :
          /\ ~GetTyped(person, k, T)[2]
          /\ GetTyped(person, k, T)[1] # person[k]
    /\ (/\ call.op = "getTyped"
        /\ call.key \in DOMAIN person
        /\ person[call.key].type # call.type)
          => (~ok /\ pc = "run" /\ age # person[call.key])

C5_Witness ==
    /\ call.op = "getTyped"
    /\ call.type = "string"
    /\ call.key \in DOMAIN person
    /\ person[call.key].type = "int"
    /\ ~ok

\* C6: for every key k that was never inserted and every type T, the typed
\* read of k at T returns ok = false.
C6_GetTypedNeverInserted ==
    /\ \A k \in Keys \ DOMAIN lastSet : \A T \in Types : ~GetTyped(person, k, T)[2]
    /\ (call.op = "getTyped" /\ call.key \notin DOMAIN lastSet) => ~ok

C6_Witness ==
    /\ call.op = "getTyped"
    /\ call.key \notin DOMAIN lastSet
    /\ lastSet # <<>>
    /\ ~ok

\* the next statement of main's own list can run
DemoStep == demo >= 0 /\ Next /\ demo' = demo + 1

\* C7: the run that executes main's own statements (name = "Alice", age = 21,
\* height = 167.64, increment "age", print) never takes the fatal branch,
\* can always take its next statement, and ends at "done" with the record
\* {name: "Alice", age: 22, height: 167.64}, which is what it prints.
C7_DemoRun ==
    /\ demo >= 0 => pc # "fatal"
    /\ (demo >= 0 /\ demo < 5) => ENABLED DemoStep
    /\ demo = 5 =>
          /\ pc = "done"
          /\ ok
          /\ DOMAIN person = {"name", "age", "height"}
          /\ person["name"] = [type |-> "string", w |-> <<0, 0, 0, 0>>, s |-> "Alice"]
          /\ person["age"] = [type |-> "int", w |-> <<0, 0, 0, 22>>, s |-> ""]
          /\ person["height"] = [type |-> "float64", w |-> <<0, 0, 0, 0>>, s |-> "167.64"]
          /\ printed = << <<"age", person["age"]>>, <<"height", person["height"]>>,
                          <<"name", person["name"]>> >>

C7_Witness == demo = 5 /\ pc = "done"

\* a value of one of the supported types, well formed
ValidValue(v) ==
    /\ v.type \in {"string", "int", "float64"}
    /\ \A i \in 1..4 : v.w[i] \in 0..(LimbBase - 1)
    /\ v.type # "int" => v.w = <<0, 0, 0, 0>>
    /\ v.type = "int" => v.s = ""

\* C8: after any sequence of set and incrementIntField operations on a record
\* created empty, every key present holds a valid value of a supported type,
\* and no step removes a key.
C8_ValidAndNeverShrinks ==
    /\ [](\A k \in DOMAIN person : ValidValue(person[k]))
    /\ [][DOMAIN person \subseteq DOMAIN person']_vars

C8_Witness ==
    /\ call.op = "set"
    /\ incs > 0
    /\ DOMAIN person = Keys
    /\ \E k \in Keys : person[k].w = <<LimbBase \div 2, 0, 0, 0>>

\* the decimal numerals of the counts used
DecimalOf(n) ==
    CASE n = -12 -> "-12"
      [] n = 0 -> "0"
      [] n = 3 -> "3"
      [] n = 10 -> "10"
      [] n = 107 -> "107"
      [] OTHER -> "?"

\* C9: every WriteLog(s) logs one line, the String of s's dynamic type:
\* "Book: <Title> - <Author>" for a Book, the decimal numeral for a Count;
\* main's two calls log the Book line first and "3" second.
C9_WriteLogLines ==
    /\ Len(log) = Len(args)
    /\ \A i \in 1..Len(args) :
          /\ args[i].type = "Book" =>
                log[i] = "Book: " \o args[i].Title \o " - " \o args[i].Author
          /\ args[i].type = "Count" => log[i] = DecimalOf(args[i].n)
    /\ args = MainArgs => log = <<"Book: Alice in Wonderland - Lewis Carrol", "3">>

C9_Witness ==
    /\ Len(args) = 2
    /\ args[1] = [type |-> "Book", Title |-> "Alice in Wonderland",
                  Author |-> "Lewis Carrol", n |-> 0]
    /\ args[2].type = "Count" /\ args[2].n = 3
    /\ Len(log) = 2

Returned == spc \in {"returned", "fatal", "printed"}

\* C10: calculateSalesRate returns a nil error with a non-empty rate only when
\* both counts succeeded; if a count fails it returns "" and that count's
\* error; CountSales is queried first and, when it fails, CountCustomers is
\* not called.
C10_SalesRateErrors ==
    /\ queries # <<>> => queries[1] = "CountSales"
    /\ Returned =>
          /\ (err = "nil" /\ sr # "") =>
                /\ queries = <<"CountSales", "CountCustomers">>
                /\ sales[2] = "nil"
                /\ customers[2] = "nil"
          /\ sales[2] # "nil" =>
                (sr = "" /\ err = sales[2] /\ queries = <<"CountSales">>)
          /\ (sales[2] = "nil" /\ customers[2] # "nil") =>
                (sr = "" /\ err = customers[2])
          /\ (sales[2] = "nil" /\ customers[2] = "nil") => (err = "nil" /\ sr # "")

C10_Witness ==
    /\ spc = "printed"
    /\ sales = <<1, "nil">>
    /\ customers = <<8, "nil">>
    /\ sr = "0.12"

====
